---- MODULE Spec2Model ----
(***************************************************************************)
(* Model of src/main.py: the scheduled news pipeline                       *)
(*   fetch_google_news -> get_gemini_summary -> send_flex_message          *)
(*                     -> update_pwa_data                                  *)
(*                                                                         *)
(* Conventions.                                                            *)
(*  - A Python str is a sequence of one-character strings.  A character    *)
(*    outside ASCII is written as its code point, "U+274C".                *)
(*  - An optional value (None or a value) is a sequence of length 0 or 1:  *)
(*    None is <<>>, the value v is <<v>>.                                  *)
(*  - Every remote call (HTTP GET, client construction, generate_content,  *)
(*    HTTP POST, file write) is an action that picks one of the outcomes   *)
(*    the library can produce.                                             *)
(***************************************************************************)
EXTENDS Integers, Sequences, FiniteSets, TLC

(***************************************************************************)
(* Bounds of the model.                                                    *)
(***************************************************************************)
MaxFeed == 2        \* items in a served feed document
MaxTextLen == 4     \* characters in a generation-service response text

(***************************************************************************)
(* Program constants.                                                      *)
(***************************************************************************)
MaxItems == 10      \* root.findall('./channel/item')[:10]
MaxLinkLen == 990   \* if len(link) > 990

None == <<>>
Some(v) == <<v>>

FallbackUrl ==
  <<"h", "t", "t", "p", "s", ":", "/", "/", "n", "e", "w", "s", ".",
    "g", "o", "o", "g", "l", "e", ".", "c", "o", "m", "/">>

TitleSep == <<" ", "-", " ">>

Marker == <<"*", "*">>

MissingKeySentinel ==
  <<"U+274C", " ", "U+7F3A", "U+5C11", " ", "A", "P", "I", " ", "K", "e", "y">>

ExhaustedSentinel ==
  <<"U+274C", " ", "A", "I", " ", "U+66AB", "U+6642", "U+7121", "U+6CD5",
    "U+56DE", "U+61C9", " ", "(", "U+53EF", "U+80FD", "U+56E0", "U+65B0",
    "U+805E", "U+5167", "U+5BB9", "U+904E", "U+65BC", "U+654F", "U+611F",
    "U+88AB", "U+6514", "U+622A", ")">>

GreetEarly == <<"U+65E9", "U+5B89">>
GreetMidday == <<"U+5348", "U+5B89">>
GreetEvening == <<"U+665A", "U+5B89">>

ModelsToTry == <<"gemini-2.0-flash", "gemini-2.0-flash-lite", "gemini-1.5-flash">>

(***************************************************************************)
(* Python truthiness of an environment value: None and "" are falsy.       *)
(***************************************************************************)
Truthy(opt) == opt # None /\ opt[1] # <<>>

(***************************************************************************)
(* fetch_google_news                                                       *)
(***************************************************************************)
Take(s, n) == SubSeq(s, 1, IF Len(s) < n THEN Len(s) ELSE n)

\* title.split(' - ')[0]: the text before the first separator
RECURSIVE CleanTitle(_)
CleanTitle(t) ==
  IF Len(t) < Len(TitleSep) THEN t
  ELSE IF SubSeq(t, 1, Len(TitleSep)) = TitleSep THEN <<>>
  ELSE <<Head(t)>> \o CleanTitle(Tail(t))

CleanLink_Ge(link) == IF Len(link) >= MaxLinkLen THEN FallbackUrl ELSE link

\* if len(link) > 990: link = "https://news.google.com/"
CleanLink(link) == IF Len(link) > MaxLinkLen THEN FallbackUrl ELSE link

\* The whole function: any exception inside the try yields [].
\* resp.kind: "neterr" (requests.get raises), "httperr" (raise_for_status
\* raises), "badxml" (ET.fromstring raises), "ok" (a parsed document).
\* An item whose title or link is None (element or text missing) raises
\* AttributeError / TypeError inside the loop.
FetchGoogleNews(resp) ==
  IF resp.kind # "ok" THEN <<>>
  ELSE LET items == Take(resp.items, MaxItems) IN
       IF \E i \in 1..Len(items) : items[i].title = None \/ items[i].link = None
       THEN <<>>
       ELSE [i \in 1..Len(items) |->
               [title |-> CleanTitle(items[i].title[1]),
                link  |-> CleanLink(items[i].link[1])]]

(***************************************************************************)
(* get_gemini_summary: pure parts                                          *)
(***************************************************************************)
MissingKey_Never(key) == FALSE

\* if not GEMINI_API_KEY
MissingKey(key) == ~Truthy(key)

\* datetime.now(timezone(timedelta(hours=8))).hour
TwHour(utcHour) == (utcHour + 8) % 24

Greeting_Strict(hour) ==
  IF 5 < hour /\ hour < 12 THEN GreetEarly
  ELSE IF 12 < hour /\ hour < 18 THEN GreetMidday
  ELSE GreetEvening

\* "早安" if 5 <= h < 12 else "午安" if 12 <= h < 18 else "晚安"
Greeting(hour) ==
  IF 5 <= hour /\ hour < 12 THEN GreetEarly
  ELSE IF 12 <= hour /\ hour < 18 THEN GreetMidday
  ELSE GreetEvening

\* the prompt: the greeting clause and the flattened titles, in order
Prompt(g, newsList) ==
  [greeting |-> g, titles |-> [i \in 1..Len(newsList) |-> newsList[i].title]]

StripMarker_Identity(text) == text

RECURSIVE StripMarker_First(_)
StripMarker_First(text) ==
  IF Len(text) < 2 THEN text
  ELSE IF SubSeq(text, 1, 2) = Marker THEN SubSeq(text, 3, Len(text))
  ELSE <<Head(text)>> \o StripMarker_First(Tail(text))

\* response.text.replace("**", ""): one left-to-right scan, non-overlapping
RECURSIVE StripMarker(_)
StripMarker(text) ==
  IF Len(text) < 2 THEN text
  ELSE IF SubSeq(text, 1, 2) = Marker THEN StripMarker(SubSeq(text, 3, Len(text)))
  ELSE <<Head(text)>> \o StripMarker(Tail(text))

NextIndex_Stay(i) == i

\* for model_name in models_to_try: the iterator advances
NextIndex(i) == i + 1

(***************************************************************************)
(* send_flex_message / __main__: pure parts                                *)
(***************************************************************************)
TokenMissing_Never(token) == FALSE

\* if not LINE_CHANNEL_ACCESS_TOKEN: return
TokenMissing(token) == ~Truthy(token)

\* the flex body: optional summary block (if summary:), one ranked row per
\* headline
Payload(newsList, text) ==
  [summaryBlock |-> IF text # <<>> THEN Some(text) ELSE None,
   rows |-> [i \in 1..Len(newsList) |->
               [rank |-> i, title |-> newsList[i].title, uri |-> newsList[i].link]]]

NewsIsTruthy_Always(newsList) == TRUE

\* if news:
NewsIsTruthy(newsList) == newsList # <<>>

(***************************************************************************)
(* Input sets                                                              *)
(***************************************************************************)
EnvValues == {None, Some(<<>>), Some(<<"k">>)}

LinkOfLen(n) == [i \in 1..n |-> "x"]

FeedItems ==
  { [title |-> Some(<<"C">>), link |-> Some(LinkOfLen(MaxLinkLen))],
    [title |-> Some(<<"A", " ", "-", " ", "S">>), link |-> Some(LinkOfLen(MaxLinkLen + 1))],
    [title |-> None, link |-> Some(LinkOfLen(3))],
    [title |-> Some(<<"C">>), link |-> None] }

Responses ==
  { [kind |-> k, items |-> <<>>] : k \in {"neterr", "httperr", "badxml"} }
  \cup { [kind |-> "ok", items |-> its] :
           its \in UNION { [1..n -> FeedItems] : n \in 0..MaxFeed } }

TextChars == {"*", "a"}
Texts == UNION { [1..n -> TextChars] : n \in 0..MaxTextLen }

Hours == 0..23
SysOffsets == {0, 9}

VARIABLES
  GEMINI_API_KEY,             \* os.environ.get("GEMINI_API_KEY")
  LINE_CHANNEL_ACCESS_TOKEN,  \* os.environ.get("LINE_CHANNEL_ACCESS_TOKEN")
  pc,         \* position of the run
  feed,       \* the HTTP response fetch_google_news received (None before)
  news,       \* __main__'s news
  h,          \* get_gemini_summary local: hour (optional)
  greeting,   \* get_gemini_summary local (optional)
  prompt,     \* get_gemini_summary local (optional)
  client,     \* get_gemini_summary local: constructed client or not
  idx,        \* position of the for loop in models_to_try
  calls,      \* generate_content calls made, with their outcomes
  summary,    \* __main__'s summary (optional)
  posts,      \* payloads handed to requests.post, with their outcomes
  snapshot,   \* content of latest_news.json
  raised,     \* the function whose exception ended the process (optional)
  trace       \* functions __main__ has invoked, in order

vars == <<GEMINI_API_KEY, LINE_CHANNEL_ACCESS_TOKEN, pc, feed, news, h, greeting,
          prompt, client, idx, calls, summary, posts, snapshot, raised, trace>>

env == <<GEMINI_API_KEY, LINE_CHANNEL_ACCESS_TOKEN>>
locals == <<h, greeting, prompt, client, idx>>

PriorSnapshot == [state |-> "prior"]

Init ==
  /\ GEMINI_API_KEY \in EnvValues
  /\ LINE_CHANNEL_ACCESS_TOKEN \in EnvValues
  /\ pc = "main"
  /\ feed = None
  /\ news = <<>>
  /\ h = None /\ greeting = None /\ prompt = None /\ client = FALSE /\ idx = 0
  /\ calls = <<>>
  /\ summary = None
  /\ posts = <<>>
  /\ snapshot = PriorSnapshot
  /\ raised = None
  /\ trace = <<>>

\* news = fetch_google_news(); if news: ...
Fetch ==
  /\ pc = "main"
  /\ \E resp \in Responses :
       /\ feed' = Some(resp)
       /\ news' = FetchGoogleNews(resp)
       /\ pc' = IF NewsIsTruthy(FetchGoogleNews(resp)) THEN "summary" ELSE "done"
  /\ trace' = Append(trace, "fetch_google_news")
  /\ UNCHANGED <<env, locals, calls, summary, posts, snapshot, raised>>

InTrace(f) == \E i \in 1..Len(trace) : trace[i] = f

\* get_gemini_summary, line 37: the early return without a key
SummaryNoKey ==
  /\ pc = "summary"
  /\ MissingKey(GEMINI_API_KEY)
  /\ summary' = Some(MissingKeySentinel)
  /\ pc' = "send"
  /\ trace' = Append(trace, "get_gemini_summary")
  /\ UNCHANGED <<env, feed, news, locals, calls, posts, snapshot, raised>>

\* get_gemini_summary, lines 39-58: hour, greeting and prompt.  The hour is
\* the UTC+8 hour; the bare except falls back to the system's local hour.
SummaryPrepare ==
  /\ pc = "summary"
  /\ ~MissingKey(GEMINI_API_KEY)
  /\ \E utcHour \in Hours, tzOk \in BOOLEAN, off \in SysOffsets :
       LET hour == IF tzOk THEN TwHour(utcHour) ELSE (utcHour + off) % 24 IN
       /\ h' = Some(hour)
       /\ greeting' = Some(Greeting(hour))
       /\ prompt' = Some(Prompt(Greeting(hour), news))
  /\ pc' = "client"
  /\ trace' = Append(trace, "get_gemini_summary")
  /\ UNCHANGED <<env, feed, news, client, idx, calls, summary, posts, snapshot, raised>>

\* line 60: client = genai.Client(api_key=GEMINI_API_KEY), outside any try:
\* an exception of the constructor leaves get_gemini_summary and __main__
MakeClient ==
  /\ pc = "client"
  /\ \E ok \in BOOLEAN :
       IF ok
       THEN /\ client' = TRUE
            /\ idx' = 1
            /\ pc' = "loop"
            /\ UNCHANGED <<h, greeting, prompt, raised>>
       ELSE /\ raised' = Some("get_gemini_summary")
            /\ pc' = "aborted"
            /\ h' = None /\ greeting' = None /\ prompt' = None
            /\ client' = FALSE /\ idx' = 0
  /\ UNCHANGED <<env, feed, news, calls, summary, posts, snapshot, trace>>

\* lines 73-80: the loop takes the next model and issues the blocking call
GenerateContent ==
  /\ pc = "loop"
  /\ idx <= Len(ModelsToTry)
  /\ calls' = Append(calls, [model |-> ModelsToTry[idx], prompt |-> prompt[1],
                             outcome |-> "pending", text |-> None])
  /\ pc' = "wait"
  /\ UNCHANGED <<env, feed, news, locals, summary, posts, snapshot, raised, trace>>

\* what a generate_content call can end with:
\*   "raise"  - the call raises (network, quota, refusal, ...)
\*   "notext" - a response whose .text is None: .replace raises AttributeError
\*   "text"   - a response with a text
CallOutcomes ==
  { [outcome |-> "raise", text |-> None], [outcome |-> "notext", text |-> None] }
  \cup { [outcome |-> "text", text |-> Some(t)] : t \in Texts }

Failed(c) == c.outcome \in {"raise", "notext"}

\* lines 81-86: return on a text, continue on any exception
GenerateReturn ==
  /\ pc = "wait"
  /\ \E out \in CallOutcomes :
       /\ calls' = [calls EXCEPT ![Len(calls)] =
                      [@ EXCEPT !.outcome = out.outcome, !.text = out.text]]
       /\ IF out.outcome = "text"
          THEN /\ summary' = Some(StripMarker(out.text[1]))
               /\ pc' = "send"
               /\ h' = None /\ greeting' = None /\ prompt' = None
               /\ client' = FALSE /\ idx' = 0
          ELSE /\ idx' = NextIndex(idx)
               /\ pc' = "loop"
               /\ UNCHANGED <<h, greeting, prompt, client, summary>>
  /\ UNCHANGED <<env, feed, news, posts, snapshot, raised, trace>>

\* line 88: the loop ran out of models
Exhausted ==
  /\ pc = "loop"
  /\ idx > Len(ModelsToTry)
  /\ summary' = Some(ExhaustedSentinel)
  /\ pc' = "send"
  /\ h' = None /\ greeting' = None /\ prompt' = None /\ client' = FALSE /\ idx' = 0
  /\ UNCHANGED <<env, feed, news, calls, posts, snapshot, raised, trace>>

\* send_flex_message, line 92: no token, no request
SendNoToken ==
  /\ pc = "send"
  /\ TokenMissing(LINE_CHANNEL_ACCESS_TOKEN)
  /\ pc' = "persist"
  /\ trace' = Append(trace, "send_flex_message")
  /\ UNCHANGED <<env, feed, news, locals, calls, summary, posts, snapshot, raised>>

\* send_flex_message, lines 93-121: requests.post, outside any try and with
\* no check of the status: "ok" and "httperr" return, "raise" propagates
SendPost ==
  /\ pc = "send"
  /\ ~TokenMissing(LINE_CHANNEL_ACCESS_TOKEN)
  /\ \E out \in {"ok", "httperr", "raise"} :
       /\ posts' = Append(posts, [payload |-> Payload(news, summary[1]), outcome |-> out])
       /\ IF out = "raise"
          THEN raised' = Some("send_flex_message") /\ pc' = "aborted"
          ELSE raised' = raised /\ pc' = "persist"
  /\ trace' = Append(trace, "send_flex_message")
  /\ UNCHANGED <<env, feed, news, locals, calls, summary, snapshot>>

\* update_pwa_data: every exception is swallowed.  "openfail": open() raises,
\* the file is untouched; "dumpfail": the write raises after open() truncated
\* the file.  (updated_at, the formatted time, is left out of the record.)
UpdatePwaData ==
  /\ pc = "persist"
  /\ \E out \in {"ok", "openfail", "dumpfail"} :
       snapshot' = CASE out = "ok" -> [state |-> "written", summary |-> summary[1], news |-> news]
                     [] out = "openfail" -> snapshot
                     [] out = "dumpfail" -> [state |-> "truncated"]
  /\ pc' = "done"
  /\ trace' = Append(trace, "update_pwa_data")
  /\ UNCHANGED <<env, feed, news, locals, calls, summary, posts, raised>>

Next ==
  \/ Fetch
  \/ SummaryNoKey
  \/ SummaryPrepare
  \/ MakeClient
  \/ GenerateContent
  \/ GenerateReturn
  \/ Exhausted
  \/ SendNoToken
  \/ SendPost
  \/ UpdatePwaData

Spec == Init /\ [][Next]_vars

(***************************************************************************)
(* Properties                                                              *)
(***************************************************************************)
HasMarker(t) == \E i \in 1..(Len(t) - 1) : t[i] = "*" /\ t[i + 1] = "*"

FirstMarker(t) ==
  CHOOSE i \in 1..(Len(t) - 1) :
    /\ t[i] = "*" /\ t[i + 1] = "*"
    /\ \A j \in 1..(i - 1) : ~(t[j] = "*" /\ t[j + 1] = "*")

\* the text left when occurrences of "**" are deleted until none is left
RECURSIVE RemoveAllMarkers(_)
RemoveAllMarkers(t) ==
  IF ~HasMarker(t) THEN t
  ELSE LET i == FirstMarker(t) IN
       RemoveAllMarkers(SubSeq(t, 1, i - 1) \o SubSeq(t, i + 2, Len(t)))

SummaryEnded ==
  InTrace("get_gemini_summary") /\ pc \in {"send", "persist", "done", "aborted"}

\* C1: if the calls for models 1..k-1 fail and the call for model k returns a
\* text, get_gemini_summary returns that text with every "**" removed and no
\* call is made for a model after k.
C1_FirstSuccessWins ==
  \A k \in 1..Len(calls) :
    (calls[k].outcome = "text" /\ \A j \in 1..(k - 1) : Failed(calls[j]))
      => /\ summary = Some(RemoveAllMarkers(calls[k].text[1]))
         /\ Len(calls) = k
         /\ calls[k].model = ModelsToTry[k]
         /\ pc \notin {"loop", "wait"}

C1_Witness ==
  /\ Len(calls) = 2
  /\ Failed(calls[1])
  /\ calls[2].outcome = "text"
  /\ calls[2].text = Some(<<"*", "*", "a", "*">>)
  /\ summary = Some(<<"a", "*">>)

\* C2: with the key present, when no attempt succeeded (whatever failed, the
\* client included), get_gemini_summary returns the exhaustion sentinel and
\* raises nothing.
C2_ExhaustionNeverRaises ==
  (Truthy(GEMINI_API_KEY) /\ SummaryEnded /\ \A k \in 1..Len(calls) : Failed(calls[k]))
    => /\ raised # Some("get_gemini_summary")
       /\ summary = Some(ExhaustedSentinel)

\* C3: without the key get_gemini_summary returns the missing-credential
\* sentinel at once: no client, no generation call, and the value differs
\* from the exhaustion sentinel.
C3_MissingKeyFastReturn ==
  ~Truthy(GEMINI_API_KEY)
    => /\ pc \notin {"client", "loop", "wait"}
       /\ calls = <<>>
       /\ ~client
       /\ raised # Some("get_gemini_summary")
       /\ InTrace("get_gemini_summary")
            => summary = Some(MissingKeySentinel) /\ summary # Some(ExhaustedSentinel)

C3_Witness ==
  /\ GEMINI_API_KEY = None
  /\ InTrace("get_gemini_summary")
  /\ summary = Some(MissingKeySentinel)
  /\ calls = <<>>

Downstream == {"get_gemini_summary", "send_flex_message", "update_pwa_data"}

\* C4: an empty headline list (no items, or an error turned into []) ends the
\* run with no summarization, no delivery and no snapshot write; any of the
\* three stages runs only on a non-empty list.
C4_EmptyFeedStops ==
  /\ (feed # None /\ feed[1].kind # "ok") => news = <<>>
  /\ (feed # None /\ news = <<>>)
       => /\ pc = "done"
          /\ trace = <<"fetch_google_news">>
          /\ calls = <<>> /\ summary = None
          /\ posts = <<>>
          /\ snapshot = PriorSnapshot
  /\ ((\E f \in Downstream : InTrace(f)) \/ calls # <<>> \/ posts # <<>>
        \/ snapshot # PriorSnapshot)
       => news # <<>>

C4_Witness ==
  /\ feed # None
  /\ feed[1].kind = "badxml"
  /\ news = <<>>
  /\ pc = "done"

\* C5: a failed delivery request is not retried and update_pwa_data still
\* runs in that run.
C5_DeliveryFailureDoesNotBlock ==
  (pc \in {"done", "aborted"} /\ posts # <<>>
     /\ posts[Len(posts)].outcome \in {"raise", "httperr"})
    => /\ Len(posts) = 1
       /\ InTrace("update_pwa_data")

\* C6: without the bearer token send_flex_message posts nothing and raises
\* nothing, and the run goes on to update_pwa_data with the same headlines
\* and summary.
C6_NoTokenSkipsDelivery ==
  (~Truthy(LINE_CHANNEL_ACCESS_TOKEN) /\ InTrace("send_flex_message"))
    => /\ posts = <<>>
       /\ raised = None
       /\ pc \in {"persist", "done"}
       /\ pc = "done" => /\ InTrace("update_pwa_data")
                         /\ snapshot \in {PriorSnapshot, [state |-> "truncated"],
                                           [state |-> "written", summary |-> summary[1],
                                            news |-> news]}

C6_Witness ==
  /\ LINE_CHANNEL_ACCESS_TOKEN = None
  /\ pc = "done"
  /\ trace = <<"fetch_google_news", "get_gemini_summary", "send_flex_message",
               "update_pwa_data">>
  /\ posts = <<>>
  /\ snapshot # PriorSnapshot /\ snapshot.state = "written"

\* C7: the greeting depends on the hour only: early for 5..11, midday for
\* 12..17, evening for the other hours.
C7_GreetingByHour ==
  greeting # None
    => /\ h # None /\ h[1] \in 0..23
       /\ h[1] \in 5..11 => greeting[1] = <<"U+65E9", "U+5B89">>
       /\ h[1] \in 12..17 => greeting[1] = <<"U+5348", "U+5B89">>
       /\ h[1] \in (0..4) \cup (18..23) => greeting[1] = <<"U+665A", "U+5B89">>
       /\ prompt # None /\ prompt[1].greeting = greeting[1]

C7_Witness ==
  /\ h = Some(12)
  /\ greeting = Some(<<"U+5348", "U+5B89">>)
  /\ pc = "wait"

\* C8: a feed link longer than 990 characters is emitted as the fallback
\* URL, a link of at most 990 characters is emitted unchanged.
C8_LinkLimit ==
  news # <<>>
    => /\ feed # None /\ Len(news) <= Len(feed[1].items)
       /\ \A i \in 1..Len(news) :
            LET link == feed[1].items[i].link[1] IN
            /\ Len(link) > 990 => news[i].link = FallbackUrl
            /\ Len(link) <= 990 => news[i].link = link
            /\ news[i].link = FallbackUrl \/ Len(news[i].link) <= 990

C8_Witness ==
  /\ Len(news) = 2
  /\ Len(feed[1].items[1].link[1]) = 990 /\ Len(news[1].link) = 990
  /\ Len(feed[1].items[2].link[1]) = 991 /\ news[2].link = FallbackUrl

\* C9: generation calls are made one at a time in the order of the model
\* list, each model at most once, and a call starts only after the previous
\* one has ended in a failure.
C9_SequentialAttempts ==
  /\ Len(calls) <= Len(ModelsToTry)
  /\ \A i \in 1..Len(calls) : calls[i].model = ModelsToTry[i]
  /\ \A i, j \in 1..Len(calls) : i # j => calls[i].model # calls[j].model
  /\ \A i \in 1..(Len(calls) - 1) : Failed(calls[i])
  /\ \A i \in 1..Len(calls) :
       calls[i].outcome = "pending" => i = Len(calls) /\ pc = "wait"
  /\ pc = "wait" => calls # <<>> /\ calls[Len(calls)].outcome = "pending"

C9_Witness ==
  /\ Len(calls) = 3
  /\ calls[1].outcome = "raise"
  /\ calls[2].outcome = "notext"
  /\ calls[3].outcome = "pending"

\* C10: no string returned by get_gemini_summary contains "**": neither a
\* stripped response text (runs of three or more '*' included) nor either
\* sentinel.
C10_NoMarkerInResult ==
  /\ summary # None => ~HasMarker(summary[1])
  /\ ~HasMarker(MissingKeySentinel)
  /\ ~HasMarker(ExhaustedSentinel)

C10_Witness ==
  /\ calls # <<>>
  /\ calls[Len(calls)].text = Some(<<"*", "*", "*", "a">>)
  /\ summary = Some(<<"*", "a">>)
====
